---- MODULE Spec2Model ----
(***************************************************************************)
(* deepmusic/model.py: class Model.                                        *)
(*                                                                         *)
(* The TensorFlow graph a Model builds is kept as a sequence of nodes; a   *)
(* tensor, operation or variable is the index of its node (Python object   *)
(* identity), and None is 0.  Construction (__init__ and _build_network)   *)
(* appends nodes in the order the code creates them; step only reads the   *)
(* instance's fields and returns (ops, feed_dict).                         *)
(***************************************************************************)
EXTENDS Integers, Sequences, FiniteSets, TLC

\* music.NB_NOTES (deepmusic/songstruct.py), the width of a note vector
NB_NOTES == 88

\* Bounds of the explored configurations and batches
MaxSampleLength == 2
MaxBatchSize == 2
MaxHidden == 1
MaxLayers == 2
MaxBatchLen == 2

None == 0

\* args: the fields of the parameter object that model.py reads.  Every
\* sample_length from -1 up is tried; of the sizes that only end up in
\* shapes, the smallest and the largest (hidden_size 0 is the invalid one).
Configs ==
    [batch_size : {1, MaxBatchSize},
     sample_length : (0 - 1)..MaxSampleLength,
     hidden_size : {0, MaxHidden},
     num_layers : {1, MaxLayers},
     test : BOOLEAN]

\* A numpy array of a batch, known by its shape: either the shape the
\* placeholders expect or one with a row too many.
Array(rows) == [shape |-> <<rows, NB_NOTES>>]

ArraysFor(cfg) == {Array(cfg.batch_size), Array(cfg.batch_size + 1)}

SeqsUpTo(S, n) == UNION {[1..k -> S] : k \in 0..n}

\* musicdata.Batch: two lists, inputs and targets, of any length
Batches(cfg) ==
    [inputs : SeqsUpTo(ArraysFor(cfg), MaxBatchLen),
     targets : SeqsUpTo(ArraysFor(cfg), MaxBatchLen)]

EmptyFeed == [k \in {} |-> Array(1)]

----------------------------------------------------------------------------
\* Graph nodes

Node(op, args, shape) == [op |-> op, args |-> args, shape |-> shape]

AddNode(g, op, args, shape) == Append(g, Node(op, args, shape))

\* A new node, with the graph that holds it
Emit(g, op, args, shape) ==
    [g |-> AddNode(g, op, args, shape), id |-> Len(g) + 1]

\* A new node computed from tensor r.id alone, of the same shape
Unary(r, op) == Emit(r.g, op, <<r.id>>, r.g[r.id].shape)

\* The engine's shape system refuses a tensor with a non-positive dimension.
EngineRejectsShape(shape) == \E k \in 1..Len(shape) : shape[k] <= 0

\* [tf.placeholder(tf.float32, shape, name) for _ in range(n)]
RECURSIVE Placeholders(_, _, _, _, _)
Placeholders(g, n, name, shape, ids) ==
    IF Len(ids) >= n
    THEN [g |-> g, ids |-> ids]
    ELSE Placeholders(AddNode(g, name, <<>>, shape), n, name, shape,
                      Append(ids, Len(g) + 1))

SlotsBuilt(ins, tgs) ==
    [err |-> "none", g |-> tgs.g, inputs |-> ins.ids, targets |-> tgs.ids]

TargetsBuilt(cfg, ins, n) ==
    SlotsBuilt(ins, Placeholders(ins.g, n, "target",
                                 <<cfg.batch_size, NB_NOTES>>, <<>>))

\* Faulty variant: target placeholders are allocated in training mode only.
BuildPlaceholdersTrainingOnly(cfg) ==
    IF cfg.sample_length > 0 /\ EngineRejectsShape(<<cfg.batch_size, NB_NOTES>>)
    THEN [err |-> "ValueError", g |-> <<>>, inputs |-> <<>>, targets |-> <<>>]
    ELSE TargetsBuilt(cfg,
                      Placeholders(<<>>, cfg.sample_length, "input",
                                   <<cfg.batch_size, NB_NOTES>>, <<>>),
                      IF cfg.test THEN 0 ELSE cfg.sample_length)

\* self.inputs and self.targets: sample_length placeholders each, of shape
\* [batch_size, NB_NOTES], whatever the mode
BuildPlaceholders(cfg) ==
    IF cfg.sample_length > 0 /\ EngineRejectsShape(<<cfg.batch_size, NB_NOTES>>)
    THEN [err |-> "ValueError", g |-> <<>>, inputs |-> <<>>, targets |-> <<>>]
    ELSE TargetsBuilt(cfg,
                      Placeholders(<<>>, cfg.sample_length, "input",
                                   <<cfg.batch_size, NB_NOTES>>, <<>>),
                      cfg.sample_length)

\* ... + b
AddBias(m, b) == Emit(m.g, "add", <<m.id, b>>, m.g[m.id].shape)

\* tf.matmul(X, W)
MatMul(g, X, W) == Emit(g, "matmul", <<X, W>>, <<g[X].shape[1], NB_NOTES>>)

\* Faulty variant: every call of the projection allocates its own weights
\* and bias.
project_note_fresh(g, X, W, b) ==
    AddBias(MatMul(AddNode(AddNode(g, "weights", <<>>, g[W].shape),
                           "bias", <<>>, g[b].shape),
                   X, Len(g) + 1),
            Len(g) + 2)

\* project_note(X) = tf.matmul(X, W) + b, with W and b of the enclosing scope
project_note(g, X, W, b) == AddBias(MatMul(g, X, W), b)

\* Faulty variant: the loop function feeds the input placeholder in both
\* modes.
loop_rnn_teacher(g, env, prev, i) == [g |-> g, id |-> env.inputs[i + 1]]

\* loop_rnn(prev, i); env holds what the closure captures (self.args.test,
\* self.inputs, W, b).  i is the Python index.  In test mode the result is
\* tf.sub(tf.mul(2.0, tf.nn.sigmoid(project_note(prev))), 1.0).
loop_rnn(g, env, prev, i) ==
    IF env.test
    THEN Unary(Unary(Unary(project_note(g, prev, env.W, env.b), "sigmoid"),
                     "mul_2"),
               "sub_1")
    ELSE [g |-> g, id |-> env.inputs[i + 1]]

\* output, state = cell(inp, state): the graph with the two results added
CellCall(l, cell, state) ==
    AddNode(AddNode(l.g, "cell_output", <<l.id, state>>,
                    <<cell.batch_size, cell.num_units>>),
            "cell_state", <<l.id, state>>,
            <<cell.num_layers, cell.batch_size, cell.num_units>>)

\* tf.nn.seq2seq.rnn_decoder(decoder_inputs, initial_state, cell,
\* loop_function): for i, inp in enumerate(decoder_inputs), inp is replaced
\* by loop_function(prev, i) once prev is set, then output, state =
\* cell(inp, state) and prev = output.
RECURSIVE rnn_decoder(_, _, _, _, _, _, _)
RECURSIVE DecoderStep(_, _, _, _, _, _)
DecoderStep(l, env, cell, i, state, outs) ==
    rnn_decoder(CellCall(l, cell, state), env, cell, i + 1,
                Len(l.g) + 2, Len(l.g) + 1, Append(outs, Len(l.g) + 1))

rnn_decoder(g, env, cell, i, state, prev, outs) ==
    IF i >= Len(env.inputs)
    THEN [g |-> g, outputs |-> outs, state |-> state]
    ELSE DecoderStep(IF prev # None
                     THEN loop_rnn(g, env, prev, i)
                     ELSE [g |-> g, id |-> env.inputs[i + 1]],
                     env, cell, i, state, outs)

\* for output in outputs: self.outputs.append(project_note(output))
RECURSIVE final_output(_, _, _, _, _)
RECURSIVE FinalAppend(_, _, _, _, _)
FinalAppend(p, outs, W, b, acc) ==
    final_output(p.g, Tail(outs), W, b, Append(acc, p.id))

final_output(g, outs, W, b, acc) ==
    IF outs = <<>>
    THEN [g |-> g, outputs |-> acc]
    ELSE FinalAppend(project_note(g, Head(outs), W, b), outs, W, b, acc)

\* [tf.ones(self.targets[0].get_shape()) for _ in range(len(self.targets))]
RECURSIVE loss_weights(_, _, _)
loss_weights(g, targets, ids) ==
    IF Len(ids) >= Len(targets)
    THEN [g |-> g, ids |-> ids]
    ELSE loss_weights(AddNode(g, "ones", <<>>, g[targets[1]].shape), targets,
                      Append(ids, Len(g) + 1))

\* The instance as _build_network leaves it when it raises
Raised(err, g, ph, outs, fs) ==
    [err |-> err, g |-> g, inputs |-> ph.inputs, targets |-> ph.targets,
     outputs |-> outs, opt_op |-> None, final_state |-> fs]

\* The instance as _build_network leaves it when it returns
Built(g, ph, outs, op, fs) ==
    [err |-> "none", g |-> g, inputs |-> ph.inputs, targets |-> ph.targets,
     outputs |-> outs, opt_op |-> op, final_state |-> fs]

\* Faulty variant: the loss and the optimizer are built in both modes.
TrainingOnlyAlways(cfg) == TRUE

\* if not self.args.test
TrainingOnly(cfg) == ~cfg.test

\* loss_fct = sequence_loss(self.outputs, self.targets, weights), its
\* summary, and self.opt_op = opt.minimize(loss_fct).  sequence_loss sums
\* the per-step losses with add_n, which refuses an empty list.
BuildOptimizer(ph, dec, fin, w) ==
    IF fin.outputs = <<>>
    THEN Raised("ValueError", w.g, ph, fin.outputs, dec.state)
    ELSE Built(AddNode(AddNode(AddNode(w.g, "sequence_loss",
                                       fin.outputs \o ph.targets \o w.ids,
                                       <<>>),
                               "scalar_summary", <<Len(w.g) + 1>>, <<>>),
                       "minimize", <<Len(w.g) + 1>>, <<>>),
               ph, fin.outputs, Len(w.g) + 3, dec.state)

\* For training only
BuildLoss(cfg, ph, dec, fin) ==
    IF ~TrainingOnly(cfg)
    THEN Built(fin.g, ph, fin.outputs, None, dec.state)
    ELSE BuildOptimizer(ph, dec, fin, loss_weights(fin.g, ph.targets, <<>>))

\* Final projection
BuildOutputs(cfg, ph, W, b, dec) ==
    BuildLoss(cfg, ph, dec, final_output(dec.g, dec.outputs, W, b, <<>>))

\* The variables of the projection (W, then b), the stacked cell with its
\* zero state, and the decoder
BuildRnn(cfg, ph) ==
    IF ph.err # "none"
    THEN Raised(ph.err, ph.g, ph, <<>>, None)
    ELSE IF EngineRejectsShape(<<cfg.hidden_size, NB_NOTES>>)
    THEN Raised("ValueError", ph.g, ph, <<>>, None)
    ELSE BuildOutputs(cfg, ph, Len(ph.g) + 1, Len(ph.g) + 2,
           rnn_decoder(
             AddNode(AddNode(AddNode(ph.g, "weights", <<>>,
                                     <<cfg.hidden_size, NB_NOTES>>),
                             "bias", <<>>, <<NB_NOTES>>),
                     "zero_state", <<>>,
                     <<cfg.num_layers, cfg.batch_size, cfg.hidden_size>>),
             [test |-> cfg.test, inputs |-> ph.inputs,
              W |-> Len(ph.g) + 1, b |-> Len(ph.g) + 2],
             [num_units |-> cfg.hidden_size, num_layers |-> cfg.num_layers,
              batch_size |-> cfg.batch_size],
             0, Len(ph.g) + 3, None, <<>>))

\* _build_network: the fields of the instance when it returns or raises
BuildNetwork(cfg) == BuildRnn(cfg, BuildPlaceholders(cfg))

----------------------------------------------------------------------------
\* The instance, the caller's last batch and what the last call gave back

VARIABLES
    pc,           \* "new" before Model(args), then "ready" or "failed"
    args,         \* self.args
    graph,        \* the graph built so far
    inputs,       \* self.inputs
    targets,      \* self.targets
    opt_op,       \* self.opt_op
    outputs,      \* self.outputs
    final_state,  \* self.final_state
    batch,        \* the argument of the last step call
    lastCall,     \* "none", "ok" or the exception the last step call raised
    ret_ops,      \* ops returned by the last step call
    ret_feed      \* feed_dict returned by the last step call

fields == <<args, graph, inputs, targets, opt_op, outputs, final_state>>
result == <<batch, lastCall, ret_ops, ret_feed>>
vars == <<pc, fields, result>>

\* The elements of the returned tuple: one operation, or one Python list
OpRef(id) == [isList |-> FALSE, id |-> id, items |-> <<>>]
ListRef(ids) == [isList |-> TRUE, id |-> None, items |-> ids]

\* feed_dict[k] = v
Put(fd, k, v) == [x \in (DOMAIN fd) \cup {k} |-> IF x = k THEN v ELSE fd[x]]

Self ==
    [args |-> args, inputs |-> inputs, targets |-> targets,
     opt_op |-> opt_op, outputs |-> outputs, final_state |-> final_state,
     graph |-> graph]

\* Faulty variant: the target placeholder is fed with the input array.
BindTrainingInputTwice(r, self, b, i) ==
    IF r.err # "none"
    THEN r
    ELSE IF i + 1 > Len(b.inputs) \/ i + 1 > Len(self.inputs)
    THEN [err |-> "IndexError", feed |-> r.feed]
    ELSE LET f1 == Put(r.feed, self.inputs[i + 1], b.inputs[i + 1])
         IN  IF i + 1 > Len(b.targets) \/ i + 1 > Len(self.targets)
             THEN [err |-> "IndexError", feed |-> f1]
             ELSE [err |-> "none",
                   feed |-> Put(f1, self.targets[i + 1], b.inputs[i + 1])]

\* Faulty variant: the arrays are checked against the placeholders' shapes.
BindTrainingChecked(r, self, b, i) ==
    IF r.err # "none"
    THEN r
    ELSE IF i + 1 > Len(b.inputs) \/ i + 1 > Len(self.inputs)
    THEN [err |-> "IndexError", feed |-> r.feed]
    ELSE IF b.inputs[i + 1].shape # self.graph[self.inputs[i + 1]].shape
    THEN [err |-> "ValueError", feed |-> r.feed]
    ELSE LET f1 == Put(r.feed, self.inputs[i + 1], b.inputs[i + 1])
         IN  IF i + 1 > Len(b.targets) \/ i + 1 > Len(self.targets)
             THEN [err |-> "IndexError", feed |-> f1]
             ELSE [err |-> "none",
                   feed |-> Put(f1, self.targets[i + 1], b.targets[i + 1])]

\* One pass of the training loop, i the Python index:
\*   feed_dict[self.inputs[i]] = batch.inputs[i]
\*   feed_dict[self.targets[i]] = batch.targets[i]
\* A list index out of range raises IndexError and ends the call.
BindTraining(r, self, b, i) ==
    IF r.err # "none"
    THEN r
    ELSE IF i + 1 > Len(b.inputs) \/ i + 1 > Len(self.inputs)
    THEN [err |-> "IndexError", feed |-> r.feed]
    ELSE LET f1 == Put(r.feed, self.inputs[i + 1], b.inputs[i + 1])
         IN  IF i + 1 > Len(b.targets) \/ i + 1 > Len(self.targets)
             THEN [err |-> "IndexError", feed |-> f1]
             ELSE [err |-> "none",
                   feed |-> Put(f1, self.targets[i + 1], b.targets[i + 1])]

\* for i in range(self.args.sample_length)
RECURSIVE FeedTraining(_, _, _, _)
FeedTraining(self, b, i, r) ==
    IF i >= self.args.sample_length
    THEN r
    ELSE FeedTraining(self, b, i + 1, BindTraining(r, self, b, i))

\* The training branch of step
StepTraining(self, b) ==
    LET r == FeedTraining(self, b, 0, [err |-> "none", feed |-> EmptyFeed])
    IN  IF r.err # "none"
        THEN [err |-> r.err, ops |-> <<>>, feed |-> EmptyFeed]
        ELSE [err |-> "none", ops |-> <<OpRef(self.opt_op)>>, feed |-> r.feed]

\* Faulty variant: the testing branch returns the optimizer handle.
StepTestingOptimizer(self, b) ==
    IF Len(b.inputs) < 1 \/ Len(self.inputs) < 1
    THEN [err |-> "IndexError", ops |-> <<>>, feed |-> EmptyFeed]
    ELSE [err |-> "none", ops |-> <<OpRef(self.opt_op)>>,
          feed |-> Put(EmptyFeed, self.inputs[1], b.inputs[1])]

\* The testing branch of step: feed_dict[self.inputs[0]] = batch.inputs[0]
StepTesting(self, b) ==
    IF Len(b.inputs) < 1 \/ Len(self.inputs) < 1
    THEN [err |-> "IndexError", ops |-> <<>>, feed |-> EmptyFeed]
    ELSE [err |-> "none", ops |-> <<ListRef(self.outputs)>>,
          feed |-> Put(EmptyFeed, self.inputs[1], b.inputs[1])]

\* Faulty variant: the branches of step are taken the wrong way round.
step_inverted(self, b) ==
    IF self.args.test THEN StepTraining(self, b) ELSE StepTesting(self, b)

\* step(self, batch): what it returns or raises
step(self, b) ==
    IF ~self.args.test THEN StepTraining(self, b) ELSE StepTesting(self, b)

----------------------------------------------------------------------------
\* Behaviour

\* The caller holds an args object; no Model exists yet.
Init ==
    /\ pc = "new"
    /\ args \in Configs
    /\ graph = <<>>
    /\ inputs = <<>>
    /\ targets = <<>>
    /\ opt_op = None
    /\ outputs = <<>>
    /\ final_state = None
    /\ batch = [inputs |-> <<>>, targets |-> <<>>]
    /\ lastCall = "none"
    /\ ret_ops = <<>>
    /\ ret_feed = EmptyFeed

\* Model(args): __init__ keeps args and builds the graph
ModelInit ==
    /\ pc = "new"
    /\ LET m == BuildNetwork(args)
       IN  /\ pc' = IF m.err = "none" THEN "ready" ELSE "failed"
           /\ graph' = m.g
           /\ inputs' = m.inputs
           /\ targets' = m.targets
           /\ opt_op' = m.opt_op
           /\ outputs' = m.outputs
           /\ final_state' = m.final_state
    /\ UNCHANGED <<args, result>>

\* Faulty variant: step adds an operation to the graph.
StepGrowingGraph(b) ==
    /\ pc = "ready"
    /\ LET r == step(Self, b)
       IN  /\ batch' = b
           /\ lastCall' = IF r.err = "none" THEN "ok" ELSE r.err
           /\ ret_ops' = r.ops
           /\ ret_feed' = r.feed
    /\ graph' = AddNode(graph, "identity", <<>>, <<>>)
    /\ UNCHANGED <<pc, args, inputs, targets, opt_op, outputs, final_state>>

\* model.step(b)
Step(b) ==
    /\ pc = "ready"
    /\ LET r == step(Self, b)
       IN  /\ batch' = b
           /\ lastCall' = IF r.err = "none" THEN "ok" ELSE r.err
           /\ ret_ops' = r.ops
           /\ ret_feed' = r.feed
    /\ UNCHANGED <<pc, fields>>

StepAny == \E b \in Batches(args) : Step(b)

Next == ModelInit \/ StepAny

Spec == Init /\ [][Next]_vars

----------------------------------------------------------------------------
\* Properties

SL == args.sample_length

Valid(cfg) ==
    /\ cfg.batch_size >= 1
    /\ cfg.sample_length >= 1
    /\ cfg.hidden_size >= 1
    /\ cfg.num_layers >= 1

Nodes == 1..Len(graph)

NodesOf(g, op) == {n \in 1..Len(g) : g[n].op = op}

SlotShape == <<args.batch_size, NB_NOTES>>

\* The graph holds the optimizer's operation: it was built for training.
BuiltForTraining == NodesOf(graph, "minimize") # {}

\* C1: in training mode, a step on a batch of sample_length input arrays
\* and sample_length target arrays returns a feed dictionary of
\* 2 * sample_length entries that maps input placeholder i to
\* batch.inputs[i] and target placeholder i to batch.targets[i], and a
\* tuple holding only the optimizer's minimize operation.
C1_TrainingStep ==
    (/\ pc = "ready"
     /\ ~args.test
     /\ lastCall # "none"
     /\ Len(batch.inputs) = SL
     /\ Len(batch.targets) = SL)
    => /\ lastCall = "ok"
       /\ Cardinality(DOMAIN ret_feed) = 2 * SL
       /\ \A i \in 1..SL :
            /\ inputs[i] \in DOMAIN ret_feed
            /\ ret_feed[inputs[i]] = batch.inputs[i]
            /\ targets[i] \in DOMAIN ret_feed
            /\ ret_feed[targets[i]] = batch.targets[i]
       /\ ret_ops = <<OpRef(opt_op)>>
       /\ opt_op \in NodesOf(graph, "minimize")

C1_Witness ==
    /\ pc = "ready"
    /\ ~args.test
    /\ SL = 2
    /\ lastCall = "ok"
    /\ Len(batch.inputs) = 2
    /\ Len(batch.targets) = 2
    /\ batch.inputs[1] # batch.inputs[2]
    /\ batch.inputs[1] # batch.targets[1]
    /\ Cardinality(DOMAIN ret_feed) = 4

\* C2: in generation mode with sample_length >= 1, a step returns a feed
\* dictionary whose only entry maps input placeholder 0 to batch.inputs[0]
\* (no other input placeholder and no target placeholder is a key) and a
\* tuple holding only the list of outputs, which has sample_length
\* elements.
C2_GenerationStep ==
    (/\ pc = "ready"
     /\ args.test
     /\ SL >= 1
     /\ lastCall # "none"
     /\ Len(batch.inputs) >= 1)
    => /\ lastCall = "ok"
       /\ DOMAIN ret_feed = {inputs[1]}
       /\ ret_feed[inputs[1]] = batch.inputs[1]
       /\ \A i \in 2..Len(inputs) : inputs[i] \notin DOMAIN ret_feed
       /\ \A i \in 1..Len(targets) : targets[i] \notin DOMAIN ret_feed
       /\ ret_ops = <<ListRef(outputs)>>
       /\ Len(ret_ops) = 1
       /\ Len(ret_ops[1].items) = SL

C2_Witness ==
    /\ pc = "ready"
    /\ args.test
    /\ SL = 2
    /\ lastCall = "ok"
    /\ Len(batch.inputs) = 2
    /\ batch.inputs[1] # batch.inputs[2]
    /\ Cardinality(DOMAIN ret_feed) = 1
    /\ Len(ret_ops[1].items) = 2

Flipped(cfg) == [cfg EXCEPT !.test = ~cfg.test]

SlotShapes(g, slots) == [i \in 1..Len(slots) |-> g[slots[i]].shape]

LossOps == {"ones", "sequence_loss", "scalar_summary", "minimize"}

HasOptimizer(m) ==
    /\ m.opt_op # None
    /\ m.opt_op \in NodesOf(m.g, "minimize")
    /\ NodesOf(m.g, "sequence_loss") # {}

HasNoOptimizer(m) ==
    /\ m.opt_op = None
    /\ \A n \in 1..Len(m.g) : m.g[n].op \notin LossOps
    /\ Len(m.outputs) = Len(m.inputs)
    /\ m.final_state # None

\* C4: two models built from configurations that differ only in the mode
\* flag have the same number and shapes of input placeholders; the
\* training one has an optimizer operation and a loss, the generation one
\* has opt_op None and no loss or optimizer node, with outputs and
\* final_state set.
C4_ModeFlagOnly ==
    pc = "ready" =>
        LET other == BuildNetwork(Flipped(args))
            this == [g |-> graph, inputs |-> inputs, outputs |-> outputs,
                     opt_op |-> opt_op, final_state |-> final_state]
            trained == IF args.test THEN other ELSE this
            generating == IF args.test THEN this ELSE other
        IN  other.err = "none" =>
              /\ SlotShapes(graph, inputs) = SlotShapes(other.g, other.inputs)
              /\ HasOptimizer(trained)
              /\ HasNoOptimizer(generating)

C4_Witness ==
    /\ pc = "ready"
    /\ args.test
    /\ SL = 2
    /\ opt_op = None
    /\ BuildNetwork(Flipped(args)).err = "none"
    /\ BuildNetwork(Flipped(args)).opt_op # None

SlotsOk(slots, op) ==
    /\ Len(slots) = SL
    /\ \A i \in 1..Len(slots) :
         /\ slots[i] \in NodesOf(graph, op)
         /\ graph[slots[i]].shape = SlotShape
    /\ \A i, j \in 1..Len(slots) : i # j => slots[i] # slots[j]

\* C5, as stated: a valid configuration gives sample_length input
\* placeholders of shape (batch_size, NB_NOTES), and target placeholders in
\* training mode only: a generation-mode model has none.
C5_Original ==
    (pc = "ready" /\ Valid(args)) =>
        /\ SlotsOk(inputs, "input")
        /\ IF args.test THEN targets = <<>> ELSE SlotsOk(targets, "target")

\* C5, amended: a valid configuration gives sample_length input
\* placeholders and sample_length target placeholders of shape
\* (batch_size, NB_NOTES) in both modes; in generation mode no node of the
\* graph reads a target placeholder.
C5_SlotsInBothModes ==
    (pc = "ready" /\ Valid(args)) =>
        /\ SlotsOk(inputs, "input")
        /\ SlotsOk(targets, "target")
        /\ args.test =>
             \A n \in Nodes : \A k \in 1..Len(graph[n].args) :
                 graph[n].args[k] \notin NodesOf(graph, "target")

C5_Witness ==
    /\ pc = "ready"
    /\ Valid(args)
    /\ args.test
    /\ SL = 2
    /\ Len(targets) = 2
    /\ Len(inputs) = 2

\* The recurrent output that self.outputs[t] projects, and the input the
\* cell was called with at that step (t counts from 1)
RnnOutput(t) == graph[graph[outputs[t]].args[1]].args[1]
CellInput(t) == graph[RnnOutput(t)].args[1]

TheWeights == CHOOSE n \in Nodes : graph[n].op = "weights"
TheBias == CHOOSE n \in Nodes : graph[n].op = "bias"

\* n is 2 * sigmoid(project_note(prev)) - 1
IsFeedback(n, prev) ==
    /\ graph[n].op = "sub_1"
    /\ LET m == graph[n].args[1]
       IN  /\ graph[m].op = "mul_2"
           /\ LET s == graph[m].args[1]
              IN  /\ graph[s].op = "sigmoid"
                  /\ LET a == graph[s].args[1]
                     IN  /\ graph[a].op = "add"
                         /\ graph[a].args[2] = TheBias
                         /\ LET x == graph[a].args[1]
                            IN  /\ graph[x].op = "matmul"
                                /\ graph[x].args = <<prev, TheWeights>>

\* C6: at every time step the cell's input is, in training mode, the input
\* placeholder of that step; in generation mode, input placeholder 0 at
\* step 0 and afterwards 2 * sigmoid(projection of the previous step's
\* recurrent output) - 1, not the input placeholder of the step.
C6_StepInput ==
    pc = "ready" =>
        /\ Len(outputs) = Len(inputs)
        /\ \A t \in 1..Len(outputs) :
             /\ graph[RnnOutput(t)].op = "cell_output"
             /\ IF ~args.test \/ t = 1
                THEN CellInput(t) = inputs[t]
                ELSE /\ CellInput(t) # inputs[t]
                     /\ IsFeedback(CellInput(t), RnnOutput(t - 1))

C6_Witness ==
    /\ pc = "ready"
    /\ args.test
    /\ SL = 2
    /\ IsFeedback(CellInput(2), RnnOutput(1))
    /\ CellInput(1) = inputs[1]

\* Every key of the returned feed dictionary is a placeholder of the
\* instance and its value is the array at the same position of the batch
\* of this call.
FeedFromBatch ==
    \A k \in DOMAIN ret_feed :
        \/ \E i \in 1..Len(inputs) :
             /\ i <= Len(batch.inputs)
             /\ k = inputs[i]
             /\ ret_feed[k] = batch.inputs[i]
        \/ \E i \in 1..Len(targets) :
             /\ i <= Len(batch.targets)
             /\ k = targets[i]
             /\ ret_feed[k] = batch.targets[i]

\* C7: a step leaves the instance as construction left it (args, the
\* graph, inputs, targets, outputs, opt_op and final_state are unchanged
\* and no node is added or removed), and what it returns is made of the
\* instance's handles and the arrays of the batch of that call.
C7_StepFrame ==
    [][pc = "ready" =>
         /\ UNCHANGED <<pc, args, graph, inputs, targets, outputs, opt_op,
                        final_state>>
         /\ FeedFromBatch'
         /\ lastCall' = "ok" =>
              ret_ops' \in {<<OpRef(opt_op)>>, <<ListRef(outputs)>>}]_vars

C7_Witness ==
    /\ pc = "ready"
    /\ lastCall = "ok"
    /\ Len(graph) > 0
    /\ DOMAIN ret_feed # {}
    /\ FeedFromBatch
    /\ Len(batch.inputs) > SL

\* The placeholder a key of the feed dictionary stands for has another
\* shape than the array bound to it.
Mismatched == \E k \in DOMAIN ret_feed : ret_feed[k].shape # graph[k].shape

\* C8, as stated: on a properly built model no batch makes step raise.
C8_Original ==
    (pc = "ready" /\ Valid(args) /\ lastCall # "none") => lastCall = "ok"

\* C8, amended: step never checks a shape and raises nothing but a list
\* index error, and that exactly when the batch has fewer arrays than the
\* step reads (training: fewer than sample_length inputs or targets;
\* generation: no input) or the model has no input placeholder 0; a batch
\* with arrays of the wrong shape or with more arrays than needed is
\* returned bound as it is.
C8_RaisesOnlyOnShortBatch ==
    (pc = "ready" /\ lastCall # "none") =>
        /\ lastCall \in {"ok", "IndexError"}
        /\ lastCall = "IndexError" <=>
             IF ~args.test
             THEN Len(batch.inputs) < SL \/ Len(batch.targets) < SL
             ELSE Len(batch.inputs) < 1 \/ Len(inputs) < 1

C8_Witness ==
    /\ pc = "ready"
    /\ ~args.test
    /\ lastCall = "ok"
    /\ Mismatched
    /\ Len(batch.inputs) > SL
    /\ Len(batch.targets) > SL

\* C9: construction from a configuration with sample_length <= 0 or
\* hidden_size <= 0 raises; no model is ready with such a configuration.
C9_InvalidConfigFails ==
    pc = "ready" => (args.sample_length > 0 /\ args.hidden_size > 0)

\* C10: the graph has one weights variable and one bias variable; each
\* output is the sum of a product with that weights variable and that
\* bias, and so is every other projection of the graph (the feedback of
\* generation mode).
C10_SharedProjection ==
    pc = "ready" =>
        /\ Cardinality(NodesOf(graph, "weights")) = 1
        /\ Cardinality(NodesOf(graph, "bias")) = 1
        /\ \A n \in NodesOf(graph, "matmul") : graph[n].args[2] = TheWeights
        /\ \A n \in NodesOf(graph, "add") :
             /\ graph[n].args[2] = TheBias
             /\ graph[n].args[1] \in NodesOf(graph, "matmul")
        /\ \A t \in 1..Len(outputs) : outputs[t] \in NodesOf(graph, "add")
        /\ Cardinality(NodesOf(graph, "matmul")) =
             Len(outputs) + (IF args.test /\ SL >= 1 THEN SL - 1 ELSE 0)

C10_Witness ==
    /\ pc = "ready"
    /\ args.test
    /\ SL = 2
    /\ Cardinality(NodesOf(graph, "matmul")) = 3
    /\ \A n \in NodesOf(graph, "matmul") : graph[n].args[2] = TheWeights

====
